---- MODULE Spec2Model ----
(***************************************************************************)
(* The attribute-driven rendering state machine of LumapVisualizer         *)
(* (src/src/main.js): loadPointCloud, switchAttribute (its synchronous     *)
(* part and the continuation that runs when the color-variant fetch        *)
(* settles) and updateHighlight, over the color, brightness and            *)
(* originalColors typed arrays.                                            *)
(*                                                                         *)
(* Float32 values are held in thousandths (1.0 is 1000, 0.2 is 200, 0.15   *)
(* is 150); the bytes of the modelled files are multiples of 51, for which *)
(* byte / 255 is a whole number of thousandths.  Arrays are sequences;     *)
(* the JavaScript index i is the sequence index i + 1.                     *)
(***************************************************************************)
EXTENDS Integers, Sequences, FiniteSets, TLC

VARIABLES
    phase,             \* "loading" until init() has finished loadPointCloud, then "ready"
    loadError,         \* the "Error loading data" message is displayed
    attributes,        \* this.attributes: Null or Some(catalog)
    attributeData,     \* this.attributeData: attribute name -> Null or Some(codes)
    currentAttribute,  \* this.currentAttribute: Null or Some(name)
    cellTypes,         \* this.cellTypes: Null or Some(codes)
    cellTypeNames,     \* this.cellTypeNames: Null or Some(names)
    highlightedType,   \* this.highlightedType: Null or Some(number)
    pointCloud,        \* this.pointCloud has been created
    coordsLength,      \* length of the position array (3 * stats.pointCount)
    colorArray,        \* pointCloud.geometry.attributes.color.array
    brightnessArray,   \* pointCloud.geometry.attributes.brightness.array
    originalColors,    \* this.originalColors: Null or Some(floats)
    originalShared,    \* this.originalColors and the color array are one object
    settings,          \* this.settings
    display,           \* what the renderer uses: the pointSize uniform (Null until the
                       \* material exists), bloomPass.strength and .radius,
                       \* controls.autoRotate and whether the clear color is black
    pending,           \* attribute name -> number of color-variant fetches in flight
    lastEvent          \* the event handled last

vars == <<phase, loadError, attributes, attributeData, currentAttribute, cellTypes,
          cellTypeNames, highlightedType, pointCloud, coordsLength, colorArray,
          brightnessArray, originalColors, originalShared, settings, display,
          pending, lastEvent>>

buffers == <<colorArray, brightnessArray, originalColors>>

(***************************************************************************)
(* Bounds of the model.                                                    *)
(***************************************************************************)
MaxPoints == 2      \* N of a well-formed bundle
MaxPending == 2     \* color-variant fetches in flight at once

(***************************************************************************)
(* null / undefined and values that may be null.                           *)
(***************************************************************************)
Null == <<>>
Some(x) == <<x>>
Val(o) == o[1]

(***************************************************************************)
(* Float32 values, in thousandths.                                         *)
(***************************************************************************)
FullBrightness == 1000
DimBrightness == 150
DimGray == 200
White == 1000
NaN == -1
Undefined == -2

\* colors[i] / 255
Normalize(byte) == (byte * 1000) \div 255

NormalizeAll(bytes) == [k \in 1..Len(bytes) |-> Normalize(bytes[k])]

\* array[i] of a typed array: undefined beyond its length
Read(array, i) == IF i >= 0 /\ i < Len(array) THEN array[i + 1] ELSE Undefined

\* the value a Float32Array stores for v
ToFloat32(v) == IF v = Undefined THEN NaN ELSE v

\* for (i = 0; i < src.length; i++) dst[i] = src[i]; a write beyond dst is dropped
CopyInto(dst, src) ==
    [k \in 1..Len(dst) |-> IF k <= Len(src) THEN src[k] ELSE dst[k]]

Fill(n, v) == [k \in 1..n |-> v]

\* an assignment of the array itself: both names then denote one object
AssignmentSharesStorage == TRUE

\* new Float32Array(array) copies the elements into storage of its own
CopySharesStorage == FALSE

(***************************************************************************)
(* The files of the bundle.                                                *)
(***************************************************************************)
Declared == {"A", "B"}
\* a member every plain object inherits from Object.prototype
InheritedNames == {"toString"}

AttrNames == {"A", "B", "Z", "celltype"} \cup InheritedNames

Catalog == [a \in Declared |-> IF a = "A" THEN <<"a0", "a1">> ELSE <<"b0", "b1", "b2">>]

LegacyNames == <<"l0", "l1">>

\* colors.bin
BaseBytes(len) == [k \in 1..len |-> IF k % 2 = 1 THEN 102 ELSE 153]

\* colors_<name>.bin
VariantBytes(name, len) ==
    [k \in 1..len |-> IF name = "A" THEN (IF k % 2 = 1 THEN 0 ELSE 204)
                                    ELSE (IF k % 2 = 1 THEN 51 ELSE 255)]

\* attribute_<name>.bin
CodeBytes(name, len) ==
    [k \in 1..len |-> IF name = "A" THEN (k - 1) % 2 ELSE (IF k = 1 THEN 2 ELSE 1)]

\* celltype.bin
LegacyCodes(len) == [k \in 1..len |-> k % 2]

VariantLens == {3 * MaxPoints, 3 * MaxPoints - 1}

Opt(S) == {Null} \cup {Some(x) : x \in S}

\* The bundles with every file of the right length: the optional files are
\* there or not, and default_attribute is declared, undeclared or missing.
WellFormedBundles ==
    [meta : BOOLEAN, dflt : Opt({"A", "B", "Z"}),
     coords : {Some(3 * MaxPoints)}, colors : {Some(3 * MaxPoints)},
     codes : [Declared -> Opt({MaxPoints})],
     legacyBin : BOOLEAN, legacyNames : BOOLEAN]

\* The bundles with one required fetch failing or one file of a wrong length.
MalformedBundles ==
    LET full == [meta |-> TRUE, dflt |-> Some("A"),
                 coords |-> Some(3 * MaxPoints), colors |-> Some(3 * MaxPoints),
                 codes |-> [a \in Declared |-> IF a = "A" THEN Some(MaxPoints) ELSE Null],
                 legacyBin |-> FALSE, legacyNames |-> FALSE]
    IN {[full EXCEPT !.coords = Null],
        [full EXCEPT !.colors = Null],
        [full EXCEPT !.coords = Some(3 * MaxPoints + 1)],
        [full EXCEPT !.colors = Some(3 * MaxPoints - 1)],
        [full EXCEPT !.colors = Some(3 * (MaxPoints - 1))],
        [full EXCEPT !.codes = [a \in Declared |->
                                   IF a = "A" THEN Some(MaxPoints - 1) ELSE Null]]}

Bundles == WellFormedBundles \cup MalformedBundles

\* a response with a non-OK status and a body of len bytes
NotOk(len) == <<len, "not ok">>

IsNotOk(outcome) == Len(outcome) = 2

\* the body of an error response
ErrorBytes(len) == [k \in 1..len |-> 102]

ErrorBodyLens == {MaxPoints - 1}

\* what a fetch of a color variant settles with: Null is a rejection, Some(len)
\* a response with status OK and the file of len bytes
VariantOutcomes == Opt(VariantLens) \cup {NotOk(len) : len \in ErrorBodyLens}

\* r.arrayBuffer() of the response, whatever its status
ResponseBytes(name, outcome) ==
    IF IsNotOk(outcome) THEN ErrorBytes(Val(outcome))
    ELSE VariantBytes(name, Val(outcome))

HighlightValues == {"", "0", "1", "2", "x"}
\* the values of the attribute dropdown, an empty and an undeclared name
AttributeValues == {"", "none", "A", "B", "Z"}

\* the names a caller other than the dropdown may pass as well
UntrustedValues == AttributeValues \cup InheritedNames

\* parseInt(cellTypeIndex)
ParseInt(s) ==
    CASE s = "0" -> 0
      [] s = "1" -> 1
      [] s = "2" -> 2
      [] OTHER -> NaN

(***************************************************************************)
(* constructor, and the setup calls of init()                              *)
(***************************************************************************)
\* this.defaultSettings, the sizes in thousandths
defaultSettings ==
    [pointSize |-> 150, bloomStrength |-> 1200, bloomRadius |-> 500,
     autoRotate |-> TRUE, backgroundDark |-> TRUE]

\* the values the three sliders are moved to
PointSizeValues == {150, 300}

BloomStrengthValues == {1200, 2000}

BloomRadiusValues == {500, 1000}

Init ==
    /\ settings = defaultSettings
    /\ display = [pointSize |-> Null,
                  bloomStrength |-> defaultSettings.bloomStrength,
                  bloomRadius |-> defaultSettings.bloomRadius,
                  autoRotate |-> defaultSettings.autoRotate,
                  backgroundDark |-> TRUE]
    /\ phase = "loading"
    /\ loadError = FALSE
    /\ attributes = Null
    /\ attributeData = [a \in AttrNames |-> Null]
    /\ currentAttribute = Null
    /\ cellTypes = Null
    /\ cellTypeNames = Null
    /\ highlightedType = Null
    /\ pointCloud = FALSE
    /\ coordsLength = 0
    /\ colorArray = <<>>
    /\ brightnessArray = <<>>
    /\ originalColors = Null
    /\ originalShared = FALSE
    /\ pending = [a \in AttrNames |-> 0]
    /\ lastEvent = "construct"

(***************************************************************************)
(* updateHighlight(cellTypeIndex)                                          *)
(***************************************************************************)
\* this.cellTypes[i] === selectedType
IsSelected(code, selectedType) == selectedType # NaN /\ code = selectedType

\* the restore loop over this.originalColors
RestoreColors(colors, original) == CopyInto(colors, original)

\* a restore that adds back what dimming took off, instead of assigning 1.0
RestoreBrightnessAdditive(brightness) ==
    [i \in 1..Len(brightness) |-> brightness[i] + (FullBrightness - DimBrightness)]

\* the loop setting every brightness to 1.0
RestoreBrightness(brightness) == Fill(Len(brightness), FullBrightness)

\* a highlight loop that lowers the brightness of the other points and leaves
\* them their color
HighlightColorUndimmed(original, codes, selectedType, k) ==
    ToFloat32(Read(original, k - 1))

\* the color a point of the highlight loop gets, component k - 1 of the array
HighlightColor(original, codes, selectedType, k) ==
    IF IsSelected(codes[((k - 1) \div 3) + 1], selectedType)
    THEN ToFloat32(Read(original, k - 1))
    ELSE DimGray

\* the brightness point i - 1 of the highlight loop gets
HighlightBrightness(codes, selectedType, i) ==
    IF IsSelected(codes[i], selectedType) THEN FullBrightness ELSE DimBrightness

\* the highlight loop runs over this.cellTypes.length points
DimColors(colors, original, codes, selectedType) ==
    [k \in 1..Len(colors) |->
        IF (k - 1) \div 3 < Len(codes)
        THEN HighlightColor(original, codes, selectedType, k)
        ELSE colors[k]]

\* an incremental highlight loop: it dims the points outside the selection and
\* leaves the brightness of the selected ones as it finds it
DimBrightnessesIncremental(brightness, codes, selectedType) ==
    [i \in 1..Len(brightness) |->
        IF i <= Len(codes) /\ ~IsSelected(codes[i], selectedType)
        THEN DimBrightness
        ELSE brightness[i]]

DimBrightnesses(brightness, codes, selectedType) ==
    [i \in 1..Len(brightness) |->
        IF i <= Len(codes)
        THEN HighlightBrightness(codes, selectedType, i)
        ELSE brightness[i]]

\* cellTypeIndex === null || cellTypeIndex === ''
IsNoHighlight(cellTypeIndex) == cellTypeIndex = Null \/ cellTypeIndex = Some("")

\* updateHighlight without its guard on this.cellTypes: the restore branch runs,
\* and the highlight branch assigns highlightedType and then throws at
\* this.cellTypes.length
UpdateHighlightResultUnguarded(cellTypeIndex, types, cloud, colors, brightness, original, highlighted) ==
    IF ~cloud
    THEN [colors |-> colors, brightness |-> brightness, highlighted |-> highlighted]
    ELSE IF IsNoHighlight(cellTypeIndex)
         THEN [colors |-> RestoreColors(colors, Val(original)),
               brightness |-> RestoreBrightness(brightness),
               highlighted |-> Null]
         ELSE IF types = Null
         THEN [colors |-> colors, brightness |-> brightness,
               highlighted |-> Some(ParseInt(Val(cellTypeIndex)))]
         ELSE [colors |-> DimColors(colors, Val(original), Val(types),
                                    ParseInt(Val(cellTypeIndex))),
               brightness |-> DimBrightnesses(brightness, Val(types),
                                              ParseInt(Val(cellTypeIndex))),
               highlighted |-> Some(ParseInt(Val(cellTypeIndex)))]

\* updateHighlight as a function of the fields it reads: the fields it leaves
UpdateHighlightResult(cellTypeIndex, types, cloud, colors, brightness, original, highlighted) ==
    IF types = Null \/ ~cloud
    THEN [colors |-> colors, brightness |-> brightness, highlighted |-> highlighted]
    ELSE IF IsNoHighlight(cellTypeIndex)
         THEN [colors |-> RestoreColors(colors, Val(original)),
               brightness |-> RestoreBrightness(brightness),
               highlighted |-> Null]
         ELSE [colors |-> DimColors(colors, Val(original), Val(types),
                                    ParseInt(Val(cellTypeIndex))),
               brightness |-> DimBrightnesses(brightness, Val(types),
                                              ParseInt(Val(cellTypeIndex))),
               highlighted |-> Some(ParseInt(Val(cellTypeIndex)))]

\* the 'change' listener of the highlight dropdown
UpdateHighlight(value) ==
    /\ phase = "ready"
    /\ UNCHANGED <<settings, display>>
    /\ LET r == UpdateHighlightResult(IF value = "" THEN Null ELSE Some(value),
                    cellTypes, pointCloud, colorArray, brightnessArray,
                    originalColors, highlightedType)
       IN /\ colorArray' = r.colors
          /\ brightnessArray' = r.brightness
          /\ highlightedType' = r.highlighted
          \* a write to the color array is a write to this.originalColors when
          \* the two are one object
          /\ originalColors' = IF originalShared THEN Some(r.colors) ELSE originalColors
    /\ lastEvent' = IF value = "" THEN "clear" ELSE "highlight"
    /\ UNCHANGED <<phase, loadError, attributes, attributeData, currentAttribute,
                   cellTypes, cellTypeNames, pointCloud, coordsLength,
                   originalShared, pending>>

(***************************************************************************)
(* switchAttribute(attrName)                                               *)
(***************************************************************************)
\* the loop of the "none" branch: i < colorAttribute.array.length / 3
WhiteColors(colors) == Fill(Len(colors), White)

WhiteBrightness(brightness, colors) ==
    [i \in 1..Len(brightness) |->
        IF (i - 1) * 3 < Len(colors) THEN FullBrightness ELSE brightness[i]]

InFlight ==
    pending["A"] + pending["B"] + pending["Z"] + pending["celltype"] + pending["toString"]

\* this.attributeData[attrName] is truthy: attributeData is a plain object ({}),
\* so the lookup of an inherited member finds a function
HasData(attrName) == attrName \in InheritedNames \/ attributeData[attrName] # Null

\* this.attributeData[attrName]: the inherited function has length 0 and no
\* indexed element, and so reads like an empty code array
DataOf(attrName) ==
    IF attrName \in InheritedNames THEN Some(<<>>) ELSE attributeData[attrName]

\* this.attributes.attributes[attrName].names: undefined for an inherited member
NamesOf(attrName) ==
    IF attrName \in Declared THEN Some(Val(attributes)[attrName]) ELSE Null

\* the names a color-variant fetch can be in flight for
FetchNames == Declared \cup InheritedNames

\* attrName === 'none'
SwitchNone ==
    /\ phase = "ready"
    /\ UNCHANGED <<settings, display>>
    /\ currentAttribute' = Null
    /\ cellTypes' = Null
    /\ cellTypeNames' = Null
    /\ IF pointCloud
       THEN /\ colorArray' = WhiteColors(colorArray)
            /\ brightnessArray' = WhiteBrightness(brightnessArray, colorArray)
            /\ originalColors' = Some(WhiteColors(colorArray))
            /\ originalShared' = CopySharesStorage
       ELSE UNCHANGED <<colorArray, brightnessArray, originalColors, originalShared>>
    /\ lastEvent' = "none"
    /\ UNCHANGED <<phase, loadError, attributes, attributeData, highlightedType,
                   pointCloud, coordsLength, pending>>

\* a named attribute, up to the await of the color-variant fetch
SwitchNamed(attrName) ==
    /\ phase = "ready"
    /\ UNCHANGED <<settings, display>>
    /\ attrName # "none"
    /\ IF attrName = "" \/ ~HasData(attrName)
       THEN /\ lastEvent' = "ignored"
            /\ UNCHANGED <<currentAttribute, cellTypes, cellTypeNames, pending>>
       ELSE IF attributes = Null
       THEN \* this.attributes.attributes throws a TypeError: the call ends there
            /\ lastEvent' = "switch"
            /\ currentAttribute' = Some(attrName)
            /\ cellTypes' = DataOf(attrName)
            /\ UNCHANGED <<cellTypeNames, pending>>
       ELSE /\ InFlight < MaxPending
            /\ lastEvent' = "switch"
            /\ currentAttribute' = Some(attrName)
            /\ cellTypes' = DataOf(attrName)
            /\ cellTypeNames' = NamesOf(attrName)
            /\ pending' = [pending EXCEPT ![attrName] = @ + 1]
    /\ UNCHANGED <<phase, loadError, attributes, attributeData, highlightedType,
                   pointCloud, coordsLength, colorArray, brightnessArray,
                   originalColors, originalShared>>

\* the rest of switchAttribute(attrName), once its fetch has settled
FetchSettled(attrName, outcome) ==
    /\ phase = "ready"
    /\ UNCHANGED <<settings, display>>
    /\ pending[attrName] > 0
    /\ pending' = [pending EXCEPT ![attrName] = @ - 1]
    /\ lastEvent' = "settle"
    /\ IF outcome = Null
       THEN UNCHANGED <<colorArray, brightnessArray, originalColors, originalShared,
                        highlightedType>>
       ELSE LET colorFloats == NormalizeAll(ResponseBytes(attrName, outcome))
                applied == IF pointCloud THEN CopyInto(colorArray, colorFloats)
                                         ELSE colorArray
                r == UpdateHighlightResult(Some(""), cellTypes, pointCloud, applied,
                         brightnessArray, Some(colorFloats), highlightedType)
            IN /\ originalColors' = Some(colorFloats)
               \* colorFloats is an array of this call, never the color array
               /\ originalShared' = FALSE
               /\ colorArray' = r.colors
               /\ brightnessArray' = r.brightness
               /\ highlightedType' = r.highlighted
    /\ UNCHANGED <<phase, loadError, attributes, attributeData, currentAttribute,
                   cellTypes, cellTypeNames, pointCloud, coordsLength>>

(***************************************************************************)
(* loadPointCloud(), and the end of init()                                 *)
(* A bundle b is what the fetches of loadPointCloud settle with:           *)
(*   b.meta        attributes.json was fetched and parsed                  *)
(*   b.dflt        its default_attribute (Null: the key is missing)        *)
(*   b.coords      length of coords.bin in floats (Null: the fetch failed) *)
(*   b.colors      length of colors.bin (Null: the fetch failed)           *)
(*   b.codes       name -> length of attribute_<name>.bin (Null: absent)   *)
(*   b.legacyBin, b.legacyNames   celltype.bin, celltype_names.json exist  *)
(* and variant is what the fetch of colors_<default>.bin settles with.     *)
(***************************************************************************)
\* this.attributeData after the loop over the attribute buffers
LoadedAttributeData(meta, codes) ==
    [a \in AttrNames |->
        IF meta /\ a \in Declared /\ codes[a] # Null
        THEN Some(CodeBytes(a, Val(codes[a])))
        ELSE Null]

\* this.currentAttribute && this.attributeData[this.currentAttribute]
DefaultHasData(meta, dflt, codes) ==
    meta /\ dflt # Null /\ LoadedAttributeData(meta, codes)[Val(dflt)] # Null

\* the fallback for the old format is taken
LegacyTaken(meta, dflt, codes, legacyBin, legacyNames) ==
    ~DefaultHasData(meta, dflt, codes) /\ legacyBin /\ legacyNames

\* this.currentAttribute at the end of loadPointCloud
LoadedCurrentAttribute(meta, dflt, codes, legacyBin, legacyNames) ==
    IF LegacyTaken(meta, dflt, codes, legacyBin, legacyNames) THEN Some("celltype")
    ELSE IF meta THEN dflt
    ELSE Null

\* a load that takes the floats of the color variant as the color array,
\* instead of writing them over the floats of colors.bin
LoadedColorsOfVariant(current, meta, colors, variant) ==
    LET base == NormalizeAll(BaseBytes(colors))
    IN IF current # Null /\ meta /\ Val(current) \in Declared /\ variant # Null
       THEN NormalizeAll(ResponseBytes(Val(current), variant))
       ELSE base

\* the color floats at the end of loadPointCloud
LoadedColors(current, meta, colors, variant) ==
    LET base == NormalizeAll(BaseBytes(colors))
    IN IF current # Null /\ meta /\ Val(current) \in Declared /\ variant # Null
       THEN CopyInto(base, NormalizeAll(ResponseBytes(Val(current), variant)))
       ELSE base

LoadPointCloud(b, variant) ==
    /\ phase = "loading"
    /\ phase' = "ready"
    /\ lastEvent' = "load"
    /\ attributes' = IF b.meta THEN Some(Catalog) ELSE Null
    /\ UNCHANGED <<highlightedType, pending, settings>>
    /\ IF b.coords = Null \/ b.colors = Null
       THEN \* the catch block: the fetches of coords.bin and colors.bin come
            \* after attributes.json and before everything else
            /\ loadError' = TRUE
            /\ currentAttribute' = IF b.meta THEN b.dflt ELSE Null
            /\ UNCHANGED <<attributeData, cellTypes, cellTypeNames, pointCloud,
                           coordsLength, colorArray, brightnessArray, originalColors,
                           originalShared, display>>
       ELSE LET current == LoadedCurrentAttribute(b.meta, b.dflt, b.codes,
                                                  b.legacyBin, b.legacyNames)
                legacy == LegacyTaken(b.meta, b.dflt, b.codes, b.legacyBin, b.legacyNames)
                floats == LoadedColors(current, b.meta, Val(b.colors), variant)
            IN /\ loadError' = FALSE
               /\ attributeData' = LoadedAttributeData(b.meta, b.codes)
               /\ currentAttribute' = current
               /\ cellTypes' =
                     IF DefaultHasData(b.meta, b.dflt, b.codes)
                     THEN LoadedAttributeData(b.meta, b.codes)[Val(b.dflt)]
                     ELSE IF legacy THEN Some(LegacyCodes(Val(b.coords) \div 3))
                     ELSE Null
               /\ cellTypeNames' =
                     IF DefaultHasData(b.meta, b.dflt, b.codes) THEN Some(Catalog[Val(b.dflt)])
                     ELSE IF legacy THEN Some(LegacyNames)
                     ELSE Null
               /\ coordsLength' = Val(b.coords)
               /\ originalColors' = Some(floats)
               /\ originalShared' = CopySharesStorage
               /\ colorArray' = floats
               /\ brightnessArray' = Fill(Val(b.coords) \div 3, FullBrightness)
               /\ pointCloud' = TRUE
               \* the material is created with the point size of the settings
               /\ display' = [display EXCEPT !.pointSize = Some(settings.pointSize)]

\* the events handled once the controls show, switchAttribute being called
\* with the names of the set values
Events(values) ==
    \/ \E value \in HighlightValues : UpdateHighlight(value)
    \/ SwitchNone
    \/ \E attrName \in values : SwitchNamed(attrName)
    \/ \E attrName \in FetchNames, outcome \in VariantOutcomes : FetchSettled(attrName, outcome)

\* the events the listeners of setupEventListeners handle
Interact == Events(AttributeValues)

Next ==
    \/ \E b \in Bundles, variant \in VariantOutcomes : LoadPointCloud(b, variant)
    \/ Interact

Spec == Init /\ [][Next]_vars

\* the same program, served well-formed bundles only
NextWellFormed ==
    \/ \E b \in WellFormedBundles, variant \in VariantOutcomes : LoadPointCloud(b, variant)
    \/ Interact

SpecWellFormed == Init /\ [][NextWellFormed]_vars

\* the same again, switchAttribute being called with any name
NextUntrusted ==
    \/ \E b \in WellFormedBundles, variant \in VariantOutcomes : LoadPointCloud(b, variant)
    \/ Events(UntrustedValues)

SpecUntrusted == Init /\ [][NextUntrusted]_vars

(***************************************************************************)
(* The listeners of the display settings, and the reset button.            *)
(***************************************************************************)
RenderFrame ==
    UNCHANGED <<phase, loadError, attributes, attributeData, currentAttribute,
                cellTypes, cellTypeNames, highlightedType, pointCloud, coordsLength,
                colorArray, brightnessArray, originalColors, originalShared, pending>>

\* the 'input' listener of the point size slider
SetPointSize(v) ==
    /\ settings' = [settings EXCEPT !.pointSize = v]
    /\ display' = IF pointCloud THEN [display EXCEPT !.pointSize = Some(v)] ELSE display
    /\ lastEvent' = "setting"
    /\ RenderFrame

SetBloomStrength(v) ==
    /\ settings' = [settings EXCEPT !.bloomStrength = v]
    /\ display' = [display EXCEPT !.bloomStrength = v]
    /\ lastEvent' = "setting"
    /\ RenderFrame

SetBloomRadius(v) ==
    /\ settings' = [settings EXCEPT !.bloomRadius = v]
    /\ display' = [display EXCEPT !.bloomRadius = v]
    /\ lastEvent' = "setting"
    /\ RenderFrame

\* the 'click' listener of the auto-rotate button
ToggleAutoRotate ==
    /\ settings' = [settings EXCEPT !.autoRotate = ~@]
    /\ display' = [display EXCEPT !.autoRotate = ~settings.autoRotate]
    /\ lastEvent' = "setting"
    /\ RenderFrame

\* the 'click' listener of the background button
ToggleBackground ==
    /\ settings' = [settings EXCEPT !.backgroundDark = ~@]
    /\ display' = [display EXCEPT !.backgroundDark = ~settings.backgroundDark]
    /\ lastEvent' = "setting"
    /\ RenderFrame

\* a reset that leaves the bloom pass as it is
ApplySettingsToUIWithoutBloom(s, shown, cloud) ==
    [pointSize |-> IF cloud THEN Some(s.pointSize) ELSE shown.pointSize,
     bloomStrength |-> shown.bloomStrength,
     bloomRadius |-> shown.bloomRadius,
     autoRotate |-> s.autoRotate,
     backgroundDark |-> s.backgroundDark]

\* applySettingsToUI(): what the renderer uses afterwards
ApplySettingsToUI(s, shown, cloud) ==
    [pointSize |-> IF cloud THEN Some(s.pointSize) ELSE shown.pointSize,
     bloomStrength |-> s.bloomStrength,
     bloomRadius |-> s.bloomRadius,
     autoRotate |-> s.autoRotate,
     backgroundDark |-> s.backgroundDark]

\* the 'click' listener of the reset button
ResetDefaults ==
    /\ settings' = defaultSettings
    /\ display' = ApplySettingsToUI(defaultSettings, display, pointCloud)
    /\ lastEvent' = "reset"
    /\ RenderFrame

\* the bundles with attributes.json, every code buffer and no legacy file
CompleteBundles ==
    {b \in WellFormedBundles :
        /\ b.meta /\ ~b.legacyBin /\ ~b.legacyNames
        /\ b.dflt \in {Null, Some("A")}
        /\ \A a \in Declared : b.codes[a] # Null}

\* the program with its display controls, served a complete bundle, every
\* color-variant fetch answered with the whole file, and the dropdowns used
\* with the values they offer
NextSettings ==
    \/ \E b \in CompleteBundles : LoadPointCloud(b, Some(3 * MaxPoints))
    \/ \E value \in {"", "0"} : UpdateHighlight(value)
    \/ SwitchNone
    \/ \E attrName \in Declared : SwitchNamed(attrName)
    \/ \E attrName \in Declared : FetchSettled(attrName, Some(3 * MaxPoints))
    \/ \E v \in PointSizeValues : SetPointSize(v)
    \/ \E v \in BloomStrengthValues : SetBloomStrength(v)
    \/ \E v \in BloomRadiusValues : SetBloomRadius(v)
    \/ ToggleAutoRotate
    \/ ToggleBackground
    \/ ResetDefaults

SpecSettings == Init /\ [][NextSettings]_vars

\* the same with every file of the bundle present and every color-variant
\* fetch answered with the whole file
NextReliable ==
    \/ \E b \in WellFormedBundles : LoadPointCloud(b, Some(3 * MaxPoints))
    \/ \E value \in HighlightValues : UpdateHighlight(value)
    \/ SwitchNone
    \/ \E attrName \in AttributeValues : SwitchNamed(attrName)
    \/ \E attrName \in FetchNames : FetchSettled(attrName, Some(3 * MaxPoints))

SpecReliable == Init /\ [][NextReliable]_vars

(***************************************************************************)
(* Vocabulary of the properties.                                           *)
(***************************************************************************)
\* stats.pointCount, as the number of whole points
PointCount == coordsLength \div 3

Points == 0..(PointCount - 1)

\* the RGB triple of point p in a color array
PointColor(array, p) == <<Read(array, 3 * p), Read(array, 3 * p + 1), Read(array, 3 * p + 2)>>

\* brightness[p]
PointBrightness(p) == Read(brightnessArray, p)

AllBright == \A p \in Points : PointBrightness(p) = FullBrightness

ColorsAreOriginal ==
    \A p \in Points : PointColor(colorArray, p) = PointColor(Val(originalColors), p)

\* c is an index into the category names of the current attribute
ValidCategory(c) == cellTypeNames # Null /\ c \in 0..(Len(Val(cellTypeNames)) - 1)

(***************************************************************************)
(* C1.  Stale fetch discard: when the color-variant fetch of attribute X   *)
(* settles after the selection has moved on to another attribute or to     *)
(* "none", it changes none of the color, brightness and original-color     *)
(* buffers.                                                                *)
(***************************************************************************)
C1_StaleFetchDiscarded ==
    [][\A attrName \in Declared, outcome \in VariantOutcomes :
          (FetchSettled(attrName, outcome) /\ currentAttribute # Some(attrName))
              => UNCHANGED buffers]_vars

(***************************************************************************)
(* C2.  Postcondition of highlight(c): right after updateHighlight(c) for  *)
(* a valid category c of the current attribute, every point whose code is  *)
(* c has brightness 1.0 and its original color, and every other point has  *)
(* brightness 0.15 and the color (0.2, 0.2, 0.2).                          *)
(***************************************************************************)
C2_HighlightPostcondition ==
    (lastEvent = "highlight" /\ pointCloud /\ cellTypes # Null
        /\ highlightedType # Null /\ ValidCategory(Val(highlightedType)))
    => \A p \in Points :
          IF Read(Val(cellTypes), p) = Val(highlightedType)
          THEN /\ PointBrightness(p) = FullBrightness
               /\ PointColor(colorArray, p) = PointColor(Val(originalColors), p)
          ELSE /\ PointBrightness(p) = DimBrightness
               /\ PointColor(colorArray, p) = <<DimGray, DimGray, DimGray>>

(***************************************************************************)
(* C3.  Round trip: with an attribute loaded, highlight(c) followed by     *)
(* clearHighlight() leaves the color of every point equal to its original  *)
(* color and every brightness 1.0.                                         *)
(***************************************************************************)
C3_HighlightClearRoundTrip ==
    [][(lastEvent = "highlight" /\ pointCloud /\ cellTypes # Null /\ UpdateHighlight(""))
          => (ColorsAreOriginal' /\ AllBright')]_vars

(***************************************************************************)
(* C4.  Idempotence of clearHighlight: in the state a clearHighlight()     *)
(* leaves, a second clearHighlight() yields the same colors, brightness    *)
(* and highlighted category (originalColors is not assigned by it).        *)
(***************************************************************************)
C4_ClearIdempotent ==
    lastEvent = "clear"
    => UpdateHighlightResult(Null, cellTypes, pointCloud, colorArray, brightnessArray,
                             originalColors, highlightedType)
       = [colors |-> colorArray, brightness |-> brightnessArray,
          highlighted |-> highlightedType]

\* a clearHighlight() has run on a loaded attribute and restored the buffers
C4_Witness ==
    /\ lastEvent = "clear"
    /\ pointCloud
    /\ cellTypes # Null
    /\ highlightedType = Null
    /\ AllBright

(***************************************************************************)
(* C5.  Every attribute switch resets the highlight: once a selection of   *)
(* "none", or the switch to a named attribute with loaded codes, has been  *)
(* processed, highlightedType is null and every brightness is 1.0,         *)
(* whatever was highlighted before.                                        *)
(***************************************************************************)
C5_SwitchResetsHighlight ==
    (pointCloud /\ (lastEvent = "none" \/ lastEvent = "settle"))
    => (highlightedType = Null /\ AllBright)

(***************************************************************************)
(* C6.  Selecting "none" sets the color of every point to (1.0, 1.0, 1.0)  *)
(* and every brightness to 1.0, and from then on, while no attribute is    *)
(* selected, a highlight request changes no buffer.                        *)
(***************************************************************************)
C6_NoneWhitensAndDisables ==
    [][/\ (SwitchNone /\ pointCloud)
            => /\ \A p \in Points : PointColor(colorArray', p) = <<White, White, White>>
               /\ AllBright'
       /\ \A value \in HighlightValues :
            (currentAttribute = Null /\ cellTypes = Null /\ UpdateHighlight(value))
                => UNCHANGED buffers]_vars

(***************************************************************************)
(* C7.  Whenever currentAttribute is null, the original color of every     *)
(* point is white or its base color and highlightedType is null.           *)
(***************************************************************************)
C7_NullAttributeInvariant ==
    (pointCloud /\ currentAttribute = Null)
    => /\ highlightedType = Null
       /\ \/ Val(originalColors) = Fill(Len(colorArray), White)
          \/ Val(originalColors) = NormalizeAll(BaseBytes(Len(colorArray)))

(***************************************************************************)
(* C8.  Buffer shapes: once the point cloud exists, the color array has    *)
(* 3N entries, the brightness array N entries, and originalColors as many  *)
(* entries as the color array, where N is the point count.                 *)
(***************************************************************************)
C8_BufferShapes ==
    pointCloud
    => /\ Len(colorArray) = coordsLength
       /\ 3 * Len(brightnessArray) = coordsLength
       /\ Len(Val(originalColors)) = Len(colorArray)

(***************************************************************************)
(* C9.  Size check of the fetched color variant: a variant whose length    *)
(* is not 3N is refused, leaving the color, brightness and original-color  *)
(* buffers unchanged.                                                      *)
(***************************************************************************)
C9_WrongSizeVariantRefused ==
    [][\A attrName \in Declared, outcome \in VariantOutcomes :
          (FetchSettled(attrName, outcome) /\ outcome # Null
              /\ Val(outcome) # coordsLength)
              => UNCHANGED buffers]_vars

(***************************************************************************)
(* C10.  Load-time length validation: a bundle whose colors.bin is not 3N  *)
(* long, or one of whose attribute code files is not N long, or whose      *)
(* coords.bin length is no multiple of 3, ends the load with the error     *)
(* shown and no point cloud, color or brightness buffer created.           *)
(***************************************************************************)
LengthMismatch(b) ==
    /\ b.coords # Null
    /\ b.colors # Null
    /\ \/ Val(b.coords) % 3 # 0
       \/ Val(b.colors) # Val(b.coords)
       \/ \E a \in Declared : b.meta /\ b.codes[a] # Null
                                 /\ 3 * Val(b.codes[a]) # Val(b.coords)

C10_MismatchAbortsLoad ==
    [][\A b \in Bundles, variant \in VariantOutcomes :
          (LoadPointCloud(b, variant) /\ LengthMismatch(b))
              => (loadError' /\ ~pointCloud' /\ colorArray' = <<>>
                    /\ brightnessArray' = <<>>)]_vars

(***************************************************************************)
(* C11.  Failed color-variant fetch: when the fetch started by             *)
(* switchAttribute(X) is rejected or answered with a non-OK status, the    *)
(* color, brightness and original-color buffers keep their values, and the *)
(* viewer goes on handling events.                                         *)
(***************************************************************************)
C11_FailedFetchKeepsBuffers ==
    [][\A attrName \in Declared, outcome \in VariantOutcomes :
          (FetchSettled(attrName, outcome) /\ (outcome = Null \/ IsNotOk(outcome)))
              => (UNCHANGED buffers /\ phase' = "ready")]_vars

(***************************************************************************)
(* C12.  Invalid highlight index: a highlight request whose category is    *)
(* no valid index into the category names of the current attribute (out    *)
(* of range, or not a number) is treated as no highlight: afterwards       *)
(* highlightedType is null, every brightness is 1.0 and every point has    *)
(* its original color.                                                     *)
(***************************************************************************)
C12_InvalidIndexIsNoHighlight ==
    [][\A value \in HighlightValues \ {""} :
          (UpdateHighlight(value) /\ pointCloud /\ cellTypes # Null
              /\ ~ValidCategory(ParseInt(value)))
              => (highlightedType' = Null /\ AllBright' /\ ColorsAreOriginal')]_vars

(***************************************************************************)
(* C13.  highlight with no attribute is a no-op: while currentAttribute is *)
(* null, a highlight request of any value leaves the color, brightness and *)
(* original-color buffers and highlightedType unchanged.                   *)
(***************************************************************************)
C13_HighlightWithoutAttributeNoOp ==
    [][\A value \in HighlightValues :
          (UpdateHighlight(value) /\ currentAttribute = Null)
              => UNCHANGED <<colorArray, brightnessArray, originalColors,
                             highlightedType>>]_vars

\* a highlight request has been handled on a loaded point cloud with no attribute
C13_Witness ==
    /\ lastEvent = "highlight"
    /\ pointCloud
    /\ currentAttribute = Null
    /\ cellTypes = Null

(***************************************************************************)
(* C14.  Unknown attribute is a no-op: switchAttribute(name) with a name   *)
(* that the catalog does not declare, or that has no loaded code buffer,   *)
(* changes none of currentAttribute, highlightedType, the active codes,    *)
(* the color, brightness and original-color buffers, and starts no fetch.  *)
(***************************************************************************)
C14_UnknownAttributeNoOp ==
    [][\A attrName \in UntrustedValues \ {"", "none"} :
          (SwitchNamed(attrName)
              /\ (attrName \notin Declared \/ attributeData[attrName] = Null))
              => UNCHANGED <<currentAttribute, highlightedType, cellTypes, cellTypeNames,
                             colorArray, brightnessArray, originalColors, pending>>]_vars

(***************************************************************************)
(* C15.  Default attribute resolution: after a load that succeeds,         *)
(* currentAttribute is the default_attribute of attributes.json when that  *)
(* name is declared in the catalog; when attributes.json is absent, or     *)
(* default_attribute is missing or undeclared, currentAttribute is null    *)
(* and the base colors of colors.bin are displayed.  Stated for the        *)
(* bundles without the two legacy files, whose fallback is C16's matter.   *)
(***************************************************************************)
C15_DefaultAttributeResolution ==
    [][phase = "loading" => \A b \in Bundles, variant \in VariantOutcomes :
          (LoadPointCloud(b, variant) /\ b.coords # Null /\ b.colors # Null
              /\ ~(b.legacyBin /\ b.legacyNames))
              => IF b.meta /\ b.dflt # Null /\ Val(b.dflt) \in Declared
                 THEN currentAttribute' = b.dflt
                 ELSE /\ currentAttribute' = Null
                      /\ colorArray' = NormalizeAll(BaseBytes(Val(b.colors)))]_vars

(***************************************************************************)
(* C16.  Legacy fallback gating: a load that found attributes.json never   *)
(* takes currentAttribute or the active code buffer from celltype.bin and  *)
(* celltype_names.json; a load that found neither attributes.json nor the  *)
(* legacy files succeeds with no attribute data and currentAttribute null. *)
(***************************************************************************)
C16_LegacyFallbackGating ==
    [][phase = "loading" => \A b \in Bundles, variant \in VariantOutcomes :
          (LoadPointCloud(b, variant) /\ b.coords # Null /\ b.colors # Null)
              => /\ b.meta =>
                      /\ currentAttribute' # Some("celltype")
                      /\ cellTypes' \in {Null} \cup {attributeData'[a] : a \in Declared}
                 /\ (~b.meta /\ ~b.legacyBin /\ ~b.legacyNames) =>
                      /\ pointCloud' /\ ~loadError'
                      /\ currentAttribute' = Null /\ cellTypes' = Null
                      /\ \A a \in AttrNames : attributeData'[a] = Null]_vars

(***************************************************************************)
(* C17.  Initialization postcondition: after the load of a bundle whose    *)
(* files all have the right lengths for N points, the color array has      *)
(* length 3N, the brightness array has length N, every brightness is 1.0   *)
(* and no highlight is active.                                             *)
(***************************************************************************)
C17_InitializationPostcondition ==
    [][phase = "loading" => \A b \in WellFormedBundles, variant \in VariantOutcomes :
          LoadPointCloud(b, variant)
              => /\ pointCloud' /\ ~loadError'
                 /\ PointCount' = MaxPoints
                 /\ Len(colorArray') = 3 * PointCount'
                 /\ Len(brightnessArray') = PointCount'
                 /\ \A i \in 1..Len(brightnessArray') : brightnessArray'[i] = FullBrightness
                 /\ highlightedType' = Null]_vars

\* a load has applied the color variant of the default attribute
C17_Witness ==
    /\ lastEvent = "load"
    /\ pointCloud
    /\ cellTypes # Null
    /\ attributes # Null
    /\ colorArray # NormalizeAll(BaseBytes(3 * MaxPoints))
    /\ Len(colorArray) = 3 * MaxPoints

(***************************************************************************)
(* C18.  No flicker while pending: the request switchAttribute(X) leaves   *)
(* the color array as it was, and so does every step between the request   *)
(* and the settling of its color-variant fetch when no user event falls    *)
(* into that window: a render tick there sees the colors displayed before  *)
(* the request.  The steps checked are the request and the first step      *)
(* after it, when that step is not the settling of the fetch of X.         *)
(***************************************************************************)
C18_NoFlickerWhilePending ==
    [][/\ \A attrName \in AttributeValues :
             SwitchNamed(attrName) => UNCHANGED <<colorArray, brightnessArray>>
       /\ \A requested \in Declared, attrName \in FetchNames, outcome \in VariantOutcomes :
             (lastEvent = "switch" /\ currentAttribute = Some(requested)
                 /\ pending[requested] > 0 /\ attrName # requested
                 /\ FetchSettled(attrName, outcome))
                 => UNCHANGED colorArray]_vars

(***************************************************************************)
(* C19.  Highlight is history-independent: in every state with an active   *)
(* code buffer, and for valid categories c and c2 of the current           *)
(* attribute, updateHighlight(c) followed by updateHighlight(c2) gives the *)
(* color array, brightness array and highlightedType (c2) that             *)
(* updateHighlight(c2) alone gives.                                        *)
(***************************************************************************)
C19_HighlightHistoryIndependent ==
    (pointCloud /\ cellTypes # Null)
        => \A c \in HighlightValues, c2 \in HighlightValues :
              (ValidCategory(ParseInt(c)) /\ ValidCategory(ParseInt(c2)))
                  => LET first == UpdateHighlightResult(Some(c), cellTypes, pointCloud,
                                      colorArray, brightnessArray, originalColors,
                                      highlightedType)
                         second == UpdateHighlightResult(Some(c2), cellTypes, pointCloud,
                                       first.colors, first.brightness, originalColors,
                                       first.highlighted)
                         direct == UpdateHighlightResult(Some(c2), cellTypes, pointCloud,
                                       colorArray, brightnessArray, originalColors,
                                       highlightedType)
                     IN second = direct /\ second.highlighted = Some(ParseInt(c2))

\* a highlight of a valid category has dimmed some points, in a state where
\* another valid category has points of its own
C19_Witness ==
    /\ lastEvent = "highlight"
    /\ pointCloud
    /\ cellTypes # Null
    /\ highlightedType # Null
    /\ ValidCategory(Val(highlightedType))
    /\ ~AllBright
    /\ \E c2 \in HighlightValues :
          /\ ValidCategory(ParseInt(c2))
          /\ ParseInt(c2) # Val(highlightedType)
          /\ \E i \in 1..Len(Val(cellTypes)) : Val(cellTypes)[i] = ParseInt(c2)

(***************************************************************************)
(* C20.  originalColors is changed only by attribute switches:             *)
(* updateHighlight, with a category or with '' (clear), never changes      *)
(* originalColors, which shares no storage with the color array; it        *)
(* changes only in the load and when a switch to "none" or the settled     *)
(* fetch of a named switch applies its colors.                             *)
(***************************************************************************)
C20_OriginalColorsOnlyBySwitch ==
    [][/\ \A value \in HighlightValues :
             UpdateHighlight(value) => UNCHANGED originalColors
       /\ (originalColors' # originalColors)
             => (lastEvent' \in {"load", "none", "settle"})]_vars

\* a highlight has dimmed points of the color array and left originalColors
C20_Witness ==
    /\ lastEvent = "highlight"
    /\ pointCloud
    /\ cellTypes # Null
    /\ ~AllBright
    /\ Len(Val(originalColors)) = Len(colorArray)
    /\ colorArray # Val(originalColors)
    /\ ~originalShared

(***************************************************************************)
(* C21.  Quiescent color/attribute consistency: in every state after the   *)
(* load with no color-variant fetch in flight, originalColors holds the    *)
(* color variant of currentAttribute when that is a declared attribute,    *)
(* and the base colors or white otherwise.                                 *)
(***************************************************************************)
C21_QuiescentConsistency ==
    (pointCloud /\ InFlight = 0)
        => IF currentAttribute # Null /\ attributes # Null
              /\ Val(currentAttribute) \in Declared
           THEN originalColors =
                   Some(NormalizeAll(VariantBytes(Val(currentAttribute), Len(colorArray))))
           ELSE originalColors \in {Some(NormalizeAll(BaseBytes(Len(colorArray)))),
                                    Some(WhiteColors(colorArray))}

\* the arrays have the lengths that PointCount points need
WellSizedBuffers ==
    /\ coordsLength = 3 * PointCount
    /\ Len(colorArray) = 3 * PointCount
    /\ Len(brightnessArray) = PointCount
    /\ originalColors # Null
    /\ Len(Val(originalColors)) = 3 * PointCount
    /\ cellTypes # Null => Len(Val(cellTypes)) = PointCount

ShownOriginal(p) ==
    /\ PointColor(colorArray, p) = PointColor(Val(originalColors), p)
    /\ PointBrightness(p) = FullBrightness

ShownDimmed(p) ==
    /\ PointColor(colorArray, p) = <<DimGray, DimGray, DimGray>>
    /\ PointBrightness(p) = DimBrightness

(***************************************************************************)
(* C22.  Per-point dichotomy: in every state after the load in which the   *)
(* color, brightness, originalColors and code arrays have the lengths that *)
(* N points need, each point either shows its original color at           *)
(* brightness 1.0 or shows the dim gray (0.2, 0.2, 0.2) at brightness 0.15.*)
(***************************************************************************)
C22_PerPointDichotomy ==
    (pointCloud /\ WellSizedBuffers)
        => \A p \in Points : ShownOriginal(p) # ShownDimmed(p)

\* a highlight has left some points with their original color and dimmed others
C22_Witness ==
    /\ pointCloud
    /\ WellSizedBuffers
    /\ lastEvent = "highlight"
    /\ \E p \in Points : ShownOriginal(p)
    /\ \E p \in Points : ShownDimmed(p)

(***************************************************************************)
(* C23.  Idle means undimmed: in every state after the load in which       *)
(* highlightedType is null, the color array equals originalColors at every *)
(* point and every brightness is 1.0.                                      *)
(***************************************************************************)
C23_IdleMeansUndimmed ==
    (pointCloud /\ highlightedType = Null) => (ColorsAreOriginal /\ AllBright)

(***************************************************************************)
(* C24.  Active codes match the current attribute: in every state after    *)
(* the load, cellTypes is null exactly when currentAttribute is null, and  *)
(* otherwise cellTypes and cellTypeNames are the code buffer and the       *)
(* category names of currentAttribute (those of the legacy files for       *)
(* 'celltype').                                                            *)
(***************************************************************************)
C24_ActiveCodesMatchAttribute ==
    pointCloud
        => /\ (cellTypes = Null) <=> (currentAttribute = Null)
           /\ (currentAttribute # Null /\ cellTypes # Null)
                 => IF attributes # Null /\ Val(currentAttribute) \in Declared
                    THEN /\ cellTypes = attributeData[Val(currentAttribute)]
                         /\ cellTypeNames = Some(Val(attributes)[Val(currentAttribute)])
                    ELSE /\ currentAttribute = Some("celltype")
                         /\ cellTypes = Some(LegacyCodes(PointCount))
                         /\ cellTypeNames = Some(LegacyNames)

(***************************************************************************)
(* C25.  Reset-to-defaults frame: the reset button puts the settings       *)
(* (point size, bloom strength and radius, auto-rotate, background) and    *)
(* what the renderer uses of them back to the defaults, and leaves         *)
(* currentAttribute, highlightedType, the active code buffer and names,    *)
(* and the color, brightness and originalColors arrays unchanged.          *)
(***************************************************************************)
C25_ResetDefaultsFrame ==
    [][ResetDefaults
          => /\ settings' = defaultSettings
             /\ display'.bloomStrength = defaultSettings.bloomStrength
             /\ display'.bloomRadius = defaultSettings.bloomRadius
             /\ display'.autoRotate = defaultSettings.autoRotate
             /\ display'.backgroundDark = defaultSettings.backgroundDark
             /\ pointCloud => display'.pointSize = Some(defaultSettings.pointSize)
             /\ UNCHANGED <<currentAttribute, highlightedType, cellTypes, cellTypeNames,
                            colorArray, brightnessArray, originalColors, pending>>]_vars

\* a reset has acted while an attribute was active and a highlight dimmed
\* some points
C25_Witness ==
    /\ lastEvent = "reset"
    /\ pointCloud
    /\ currentAttribute # Null
    /\ highlightedType # Null
    /\ ~AllBright
    /\ settings = defaultSettings
====
